---- MODULE Spec2Model ----
(***************************************************************************)
(* Model of src/main.py: the DeiT -> MLP-Mixer block distillation script.  *)
(* A network is a record: its block sequence, its four tail layers, the    *)
(* set of parameters that track gradients and the set of parameters whose  *)
(* value came from a checkpoint.  The four helpers (load_weight,           *)
(* replace_att2mixer, cut_extra_layers, set_requires_grad) are operators   *)
(* computed the way the code computes them; main and the script entry are  *)
(* a state machine over the program counter pc.                            *)
(***************************************************************************)
EXTENDS Integers, Sequences, FiniteSets, TLC

\* ------------------------------------------------------------- bounds
\* longest --replace / targets list that is enumerated
MaxRepl == 2
\* longest --replace list given on the command line
MaxCli == 1

\* ------------------------------------------------------ program constants
\* cut_extra_layers(model, max_index, depth = 12); the DeiT models have 12 blocks
Depth == 12

\* --nb-classes, default 100 (the class count of the default data set)
nb_classes == 100

\* ------------------------------------------------------------ strings
\* A string is the sequence of its characters, so that `target in name`
\* (substring containment) and f"blocks.{target}" are computed, not assumed.
DigitChar(d) ==
    CASE d = 0 -> "0" [] d = 1 -> "1" [] d = 2 -> "2" [] d = 3 -> "3"
      [] d = 4 -> "4" [] d = 5 -> "5" [] d = 6 -> "6" [] d = 7 -> "7"
      [] d = 8 -> "8" [] d = 9 -> "9"

RECURSIVE NatStr(_)
NatStr(n) == IF n < 10 THEN <<DigitChar(n)>>
             ELSE NatStr(n \div 10) \o <<DigitChar(n % 10)>>

\* str(i) of a Python int
IntStr(i) == IF i < 0 THEN <<"-">> \o NatStr(0 - i) ELSE NatStr(i)

\* Python's `sub in s` on strings
Contains(sub, s) ==
    \E k \in 1..(Len(s) - Len(sub) + 1) : SubSeq(s, k, k + Len(sub) - 1) = sub

BlocksDot == <<"b", "l", "o", "c", "k", "s", ".">>

\* f"blocks.{target}"
TargetName(target) == BlocksDot \o IntStr(target)

\* the characters of the parameter names the model knows
SubChars(sub) ==
    CASE sub = "mlp.fc1.weight" ->
           <<"m","l","p",".","f","c","1",".","w","e","i","g","h","t">>
      [] sub = "token_mixing.fc1.weight" ->
           <<"t","o","k","e","n","_","m","i","x","i","n","g",".",
             "f","c","1",".","w","e","i","g","h","t">>
      [] sub = "pos_embed" -> <<"p","o","s","_","e","m","b","e","d">>
      [] sub = "norm.weight" -> <<"n","o","r","m",".","w","e","i","g","h","t">>
      [] sub = "head.weight" -> <<"h","e","a","d",".","w","e","i","g","h","t">>
      [] sub = "head.bias" -> <<"h","e","a","d",".","b","i","a","s">>
      [] sub = "head_dist.weight" ->
           <<"h","e","a","d","_","d","i","s","t",".","w","e","i","g","h","t">>
      [] sub = "head_dist.bias" ->
           <<"h","e","a","d","_","d","i","s","t",".","b","i","a","s">>

\* A parameter is [blk, sub]: blk is the position of the block that owns it
\* (-1 for a parameter of the model itself).  named_parameters() names a
\* block's parameter "blocks.<position>.<sub>".
ParamName(p) ==
    IF p.blk < 0 THEN SubChars(p.sub)
    ELSE BlocksDot \o IntStr(p.blk) \o <<".">> \o SubChars(p.sub)

\* ------------------------------------------------------------- blocks
\* hyperparameters of a block that has none
NoHP == [num_patches |-> 0, token_hid_dim |-> 0,
         channels_dim |-> 0, channels_hid_dim |-> 0]

\* the architecture parameter table of models.py, keyed by model name
param_dict ==
    [n \in {"deit_tiny_patch16_224", "deit_small_patch16_224"} |->
        IF n = "deit_tiny_patch16_224"
        THEN [num_patches |-> 196, token_hid_dim |-> 384,
              channels_dim |-> 192, channels_hid_dim |-> 768]
        ELSE [num_patches |-> 196, token_hid_dim |-> 768,
              channels_dim |-> 384, channels_hid_dim |-> 1536]]

\* a DeiT name that create_model knows and the table does not
DistilledName == "deit_tiny_distilled_patch16_224"

ModelNames == DOMAIN param_dict \cup {DistilledName}

\* the native attention block that create_model put at position i
AttnBlock(i) == [kind |-> "attn", src |-> i, hp |-> NoHP]

\* MixerBlock(num_patches, token_hid_dim, channels_dim, channels_hid_dim)
MixerBlock(np, thd, cd, chd) ==
    [kind |-> "mixer", src |-> 0 - 1,
     hp |-> [num_patches |-> np, token_hid_dim |-> thd,
             channels_dim |-> cd, channels_hid_dim |-> chd]]

\* EmptyBlock(): the pass-through block, which owns no parameter
EmptyBlock == [kind |-> "empty", src |-> 0 - 1, hp |-> NoHP]

\* the parameters a block at position i registers
BlockParams(b, i) ==
    CASE b.kind = "attn" -> {[blk |-> i, sub |-> "mlp.fc1.weight"]}
      [] b.kind = "mixer" -> {[blk |-> i, sub |-> "token_mixing.fc1.weight"]}
      [] b.kind = "empty" -> {}

HeadKeys == {"head.weight", "head.bias", "head_dist.weight", "head_dist.bias"}

Top(sub) == [blk |-> 0 - 1, sub |-> sub]

\* the parameters of the model's own layers (model.state_dict() beside blocks)
TopParams(m) ==
    {Top("pos_embed")}
    \cup (IF m.norm = "orig" THEN {Top("norm.weight")} ELSE {})
    \cup (IF m.head = "orig" THEN {Top("head.weight"), Top("head.bias")} ELSE {})
    \cup (IF m.dist THEN {Top("head_dist.weight"), Top("head_dist.bias")} ELSE {})

\* model.named_parameters()
Params(m) ==
    TopParams(m)
    \cup UNION {BlockParams(m.blocks[i + 1], i) : i \in 0..(Len(m.blocks) - 1)}

\* no model object yet
NoModel ==
    [blocks |-> <<>>, norm |-> "none", fc_norm |-> "none", head_drop |-> "none",
     head |-> "none", dist |-> FALSE, ncls |-> 0, grad |-> {}, loaded |-> {},
     num_patches |-> 0, tokens |-> 0,
     pos |-> [from |-> "none", resampled |-> FALSE]]

\* patches of a 224 x 224 input cut into 16 x 16 pieces (--input-size 224)
NumPatches == (224 \div 16) * (224 \div 16)

\* create_model(name, pretrained=False, num_classes=ncls, ...): Depth native
\* blocks, every parameter freshly initialized and tracking gradients; the
\* positional embedding has one row per patch plus one per extra token
\* (class token, and the distillation token of a distilled model)
CreateModel(name, ncls) ==
    LET m == [blocks |-> [i \in 1..Depth |-> AttnBlock(i - 1)],
              norm |-> "orig", fc_norm |-> "orig", head_drop |-> "orig",
              head |-> "orig", dist |-> (name = DistilledName), ncls |-> ncls,
              grad |-> {}, loaded |-> {},
              num_patches |-> NumPatches,
              tokens |-> NumPatches + (IF name = DistilledName THEN 2 ELSE 1),
              pos |-> [from |-> "init", resampled |-> FALSE]]
    IN [m EXCEPT !.grad = Params(m)]

\* model.blocks[idx] = blk on the nn.Sequential block list: a Python index,
\* negative ones counted from the end, IndexError outside [-len, len).  The
\* block's old parameters leave the model; the new block's parameters are
\* fresh (not loaded) and track gradients.
SetItem(m, idx, blk) ==
    LET n == Len(m.blocks) IN
    IF idx < 0 - n \/ idx >= n THEN [m |-> m, err |-> "IndexError"]
    ELSE LET p == IF idx < 0 THEN idx + n ELSE idx
             old == BlockParams(m.blocks[p + 1], p)
             new == BlockParams(blk, p)
         IN [m |-> [m EXCEPT !.blocks[p + 1] = blk,
                             !.grad = (@ \ old) \cup new,
                             !.loaded = @ \ old],
             err |-> "none"]

\* replace_att2mixer with the last two constructor arguments exchanged
RECURSIVE replace_att2mixer_swapped(_, _, _)
replace_att2mixer_swapped(model, repl_blocks, model_name) ==
    IF repl_blocks = <<>> THEN [m |-> model, err |-> "none"]
    ELSE IF model_name \notin DOMAIN param_dict
         THEN [m |-> model, err |-> "KeyError"]
         ELSE LET mlp_block == MixerBlock(param_dict[model_name].num_patches,
                                          param_dict[model_name].token_hid_dim,
                                          param_dict[model_name].channels_hid_dim,
                                          param_dict[model_name].channels_dim)
                  r == SetItem(model, Head(repl_blocks), mlp_block)
              IN IF r.err # "none" THEN r
                 ELSE replace_att2mixer_swapped(r.m, Tail(repl_blocks), model_name)

\* replace_att2mixer with the table entry looked up once, ahead of the loop
RECURSIVE EagerLoop(_, _, _)
EagerLoop(model, repl_blocks, hp) ==
    IF repl_blocks = <<>> THEN [m |-> model, err |-> "none"]
    ELSE LET mlp_block == MixerBlock(hp.num_patches, hp.token_hid_dim,
                                     hp.channels_dim, hp.channels_hid_dim)
             r == SetItem(model, Head(repl_blocks), mlp_block)
         IN IF r.err # "none" THEN r ELSE EagerLoop(r.m, Tail(repl_blocks), hp)

replace_att2mixer_eager(model, repl_blocks, model_name) ==
    IF model_name \notin DOMAIN param_dict
    THEN [m |-> model, err |-> "KeyError"]
    ELSE EagerLoop(model, repl_blocks, param_dict[model_name])

\* replace_att2mixer: one MixerBlock per listed index, built from the table
\* entry of model_name (looked up inside the loop), written in place
RECURSIVE replace_att2mixer(_, _, _)
replace_att2mixer(model, repl_blocks, model_name) ==
    IF repl_blocks = <<>> THEN [m |-> model, err |-> "none"]
    ELSE IF model_name \notin DOMAIN param_dict
         THEN [m |-> model, err |-> "KeyError"]
         ELSE LET mlp_block == MixerBlock(param_dict[model_name].num_patches,
                                          param_dict[model_name].token_hid_dim,
                                          param_dict[model_name].channels_dim,
                                          param_dict[model_name].channels_hid_dim)
                  r == SetItem(model, Head(repl_blocks), mlp_block)
              IN IF r.err # "none" THEN r
                 ELSE replace_att2mixer(r.m, Tail(repl_blocks), model_name)

\* model.<layer> = nn.Identity() for the four tail layers
NullTail(m) ==
    LET gone == {Top("norm.weight"), Top("head.weight"), Top("head.bias")} IN
    [m EXCEPT !.norm = "identity", !.fc_norm = "identity",
              !.head_drop = "identity", !.head = "identity",
              !.grad = @ \ gone, !.loaded = @ \ gone]

\* for index in range(from, depth): model.blocks[index] = EmptyBlock()
RECURSIVE CutLoop(_, _, _)
CutLoop(m, index, depth) ==
    IF index >= depth THEN [m |-> m, err |-> "none"]
    ELSE LET r == SetItem(m, index, EmptyBlock)
         IN IF r.err # "none" THEN r ELSE CutLoop(r.m, index + 1, depth)

\* cut_extra_layers whose loop starts at max_index instead of max_index + 1
cut_extra_layers_from_max(model, max_index, depth) ==
    LET r == CutLoop(model, max_index, depth)
    IN IF r.err # "none" THEN r ELSE [m |-> NullTail(r.m), err |-> "none"]

\* cut_extra_layers(model, max_index, depth)
cut_extra_layers(model, max_index, depth) ==
    LET r == CutLoop(model, max_index + 1, depth)
    IN IF r.err # "none" THEN r ELSE [m |-> NullTail(r.m), err |-> "none"]

\* any(target in name for target in target_names), target_names built with
\* f"blocks.{target}"
Matched(p, targets) ==
    \E k \in 1..Len(targets) : Contains(TargetName(targets[k]), ParamName(p))

\* set_requires_grad(model, targets, freeze): a matched parameter gets
\* requires_grad = not freeze, every other parameter requires_grad = freeze
set_requires_grad(model, targets, freeze) ==
    [model EXCEPT !.grad = {p \in Params(model) :
                              IF Matched(p, targets) THEN ~freeze ELSE freeze}]

\* --------------------------------------------------------- checkpoints
\* What a checkpoint source yields.  ok: the fetch and deserialization
\* succeed; pos: the dictionary has 'pos_embed', with `tokens` rows; heads:
\* the head keys it holds, each shaped for ncls classes; body: it holds the
\* native blocks' and the final norm's parameters.
Unreachable ==
    [ok |-> FALSE, pos |-> FALSE, heads |-> {}, ncls |-> 0, tokens |-> 0,
     body |-> FALSE]

HeadSets == {{}, {"head.weight", "head.bias"}, HeadKeys}

Checkpoints ==
    {Unreachable} \cup
    [ok : {TRUE}, pos : BOOLEAN, heads : HeadSets, ncls : {nb_classes, 1000},
     tokens : {NumPatches + 1, NumPatches + 2, 24 * 24 + 1}, body : BOOLEAN]

\* int(x ** 0.5)
ISqrt(x) == IF x < 0 THEN 0 - 1
            ELSE CHOOSE r \in 0..x : r * r <= x /\ x < (r + 1) * (r + 1)

\* for k in ['head.weight', 'head.bias', 'head_dist.weight', 'head_dist.bias']
HeadOrder == <<"head.weight", "head.bias", "head_dist.weight", "head_dist.bias">>

\* the loop over the head keys: state_dict[k] is a KeyError when the model
\* has no such key; a key of another shape is deleted from the checkpoint
RECURSIVE HeadLoop(_, _, _, _)
HeadLoop(ks, heads, m, c) ==
    IF ks = <<>> THEN [heads |-> heads, err |-> "none"]
    ELSE LET k == Head(ks) IN
         IF k \in heads
         THEN IF Top(k) \notin Params(m)
              THEN [heads |-> heads, err |-> "KeyError"]
              ELSE IF c.ncls # m.ncls
                   THEN HeadLoop(Tail(ks), heads \ {k}, m, c)
                   ELSE HeadLoop(Tail(ks), heads, m, c)
         ELSE HeadLoop(Tail(ks), heads, m, c)

\* the keys of the checkpoint dictionary handed to load_state_dict
CkptKeys(c, heads) ==
    (IF c.pos THEN {Top("pos_embed")} ELSE {})
    \cup {Top(k) : k \in heads}
    \cup (IF c.body
          THEN {Top("norm.weight")}
               \cup {[blk |-> i, sub |-> "mlp.fc1.weight"] : i \in 0..(Depth - 1)}
          ELSE {})

\* load_weight(model, weight), on what the source `weight` yields
load_weight(model, c) ==
    IF ~c.ok THEN [m |-> model, err |-> "IOError"]
    ELSE LET h == HeadLoop(HeadOrder, c.heads, model, c) IN
         IF h.err # "none" THEN [m |-> model, err |-> h.err]
         ELSE IF ~c.pos THEN [m |-> model, err |-> "KeyError"]
         ELSE LET num_extra_tokens == model.tokens - model.num_patches
                  orig_size == ISqrt(c.tokens - num_extra_tokens)
                  new_size == ISqrt(model.num_patches)
              IN \* reshape(-1, orig_size, orig_size, embedding_size)
                 IF orig_size * orig_size # c.tokens - num_extra_tokens
                 THEN [m |-> model, err |-> "RuntimeError"]
                 ELSE [m |-> [model EXCEPT
                                !.pos = [from |-> "ckpt",
                                         resampled |-> (orig_size # new_size)],
                                \* load_state_dict(checkpoint_model, strict=False)
                                !.loaded = @ \cup (Params(model)
                                                   \cap CkptKeys(c, h.heads))],
                       err |-> "none"]

\* -------------------------------------------------------------- state
VARIABLES
    pc,       \* where the script, main or a helper call stands
    entry,    \* "script": run from the command line; "call": main(args)
              \* called directly; "unit": one helper called on its own
    cli,      \* the values given on the command line
    args,     \* the namespace main works on
    student,  \* model_deit / model_repl / partial_model (one object)
    teacher,  \* model_ori / partial_model_ori
    ckpt,     \* what args.d_weight yielded when it was first fetched
    err,      \* the exception that ended the run, "none" if none
    hist,     \* the steps taken on the models, in order
    pre,      \* helper call: the model as it was handed in
    call      \* helper call: the function and its arguments

vars == <<pc, entry, cli, args, student, teacher, ckpt, err, hist, pre, call>>

\* ------------------------------------------------------------- inputs
RECURSIVE SeqsUpTo(_, _)
SeqsUpTo(S, n) ==
    IF n = 0 THEN {<<>>}
    ELSE LET shorter == SeqsUpTo(S, n - 1)
         IN shorter \cup {Append(q, x) : q \in shorter, x \in S}

\* indices given to main: in range, the first out of range, and a negative one
MainIdx == {0 - 1, 0, 1, Depth - 2, Depth - 1, Depth}

\* indices given to a helper on its own: every position, and those around
\* both ends of the valid range
UnitIdx == {0 - Depth - 1, 0 - Depth, 0 - 1} \cup 0..Depth

\* the hard-coded values of the script entry
deit_model == "deit_tiny_patch16_224"
deit_weight == "https://dl.fbaipublicfiles.com/deit/deit_tiny_patch16_224-a1311bcf.pth"
repl_index == <<1>>

\* sources of weights: "" is the default of --d-weight and --eval-model
Weights == {"", deit_weight}
EvalModels == {"", "student.pth"}

ArgSet ==
    [d_model : ModelNames, d_weight : Weights, replace : SeqsUpTo(MainIdx, MaxRepl),
     train : BOOLEAN, eval : BOOLEAN, eval_model : EvalModels]

\* --replace has nargs="+": a list given on the command line is not empty
CliSet == {a \in ArgSet : a.replace # <<>> /\ Len(a.replace) <= MaxCli}

\* what main can be handed for a source: nothing at all for the empty path,
\* else a checkpoint of the native architecture or a failed fetch
MainCheckpoints ==
    {c \in Checkpoints : ~c.ok \/ (c.body /\ c.tokens # 24 * 24 + 1)}

Fetch(source) == IF source = "" THEN {Unreachable} ELSE MainCheckpoints

NoCall ==
    [op |-> "none", repl |-> <<>>, name |-> "", max_index |-> 0, depth |-> 0,
     freeze |-> FALSE, ckpt |-> Unreachable]

\* max(args.replace) on a non-empty list
RECURSIVE SeqMax(_)
SeqMax(q) == IF Len(q) = 1 THEN q[1]
             ELSE LET t == SeqMax(Tail(q)) IN IF q[1] > t THEN q[1] ELSE t

\* the default of set_requires_grad's third parameter
DefaultFreeze == TRUE

\* --------------------------------------------------------- main, script
Init ==
    /\ entry \in {"script", "call"}
    /\ IF entry = "script"
       THEN pc = "parse" /\ cli \in CliSet /\ args = cli
       ELSE pc = "main" /\ args \in ArgSet /\ cli = args
    /\ student = NoModel
    /\ teacher = NoModel
    /\ ckpt = Unreachable
    /\ err = "none"
    /\ hist = <<>>
    /\ pre = NoModel
    /\ call = NoCall

Raise(e) == pc' = "raised" /\ err' = e

\* args = parser.parse_args()
ParseArgs ==
    /\ pc = "parse"
    /\ args' = cli
    /\ pc' = "override"
    /\ UNCHANGED <<entry, cli, student, teacher, ckpt, err, hist, pre, call>>

\* args.d_model = deit_model; args.d_weight = deit_weight;
\* args.replace = repl_index; args.train = True; main(args)
Override ==
    /\ pc = "override"
    /\ args' = [args EXCEPT !.d_model = deit_model, !.d_weight = deit_weight,
                            !.replace = repl_index, !.train = TRUE]
    /\ pc' = "main"
    /\ UNCHANGED <<entry, cli, student, teacher, ckpt, err, hist, pre, call>>

\* main up to create_model: seeds, data sets, loaders, the DeiT structure
MainCreate ==
    /\ pc = "main"
    /\ student' = CreateModel(args.d_model, nb_classes)
    /\ hist' = Append(hist, "create")
    /\ pc' = "copy"
    /\ UNCHANGED <<entry, cli, args, teacher, ckpt, err, pre, call>>

\* the deep copy followed at once by the mode dispatch, the replacement of
\* the student's blocks left out of the common prefix
MainDeepCopy_no_replace ==
    /\ pc = "copy"
    /\ teacher' = student
    /\ hist' = Append(hist, "deepcopy")
    /\ pc' = "dispatch"
    /\ UNCHANGED <<entry, cli, args, student, ckpt, err, pre, call>>

\* model_ori = copy.deepcopy(model_deit)
MainDeepCopy ==
    /\ pc = "copy"
    /\ teacher' = student
    /\ hist' = Append(hist, "deepcopy")
    /\ pc' = "replace"
    /\ UNCHANGED <<entry, cli, args, student, ckpt, err, pre, call>>

\* model_repl = replace_att2mixer(model_deit, args.replace, args.d_model)
MainReplace ==
    /\ pc = "replace"
    /\ LET r == replace_att2mixer(student, args.replace, args.d_model) IN
       /\ student' = r.m
       /\ IF r.err = "none" THEN pc' = "dispatch" /\ err' = err ELSE Raise(r.err)
    /\ hist' = Append(hist, "replace")
    /\ UNCHANGED <<entry, cli, args, teacher, ckpt, pre, call>>

\* if args.eval and not args.train / elif args.train and not args.eval / else
MainDispatch ==
    /\ pc = "dispatch"
    /\ IF args.eval /\ ~args.train THEN pc' = "eval_load" /\ err' = err
       ELSE IF args.train /\ ~args.eval THEN pc' = "train_load" /\ err' = err
       ELSE Raise("ModeError")
    /\ UNCHANGED <<entry, cli, args, student, teacher, ckpt, hist, pre, call>>

\* model = load_weight(model_repl, args.eval_model); the branch ends there
MainEvalLoad ==
    /\ pc = "eval_load"
    /\ \E c \in Fetch(args.eval_model) :
         LET r == load_weight(student, c) IN
         /\ student' = r.m
         /\ IF r.err = "none" THEN pc' = "done" /\ err' = err ELSE Raise(r.err)
    /\ hist' = Append(hist, "load_student")
    /\ UNCHANGED <<entry, cli, args, teacher, ckpt, pre, call>>

\* model = load_weight(model_repl, args.d_weight)
MainTrainLoad ==
    /\ pc = "train_load"
    /\ \E c \in Fetch(args.d_weight) :
         LET r == load_weight(student, c) IN
         /\ ckpt' = c
         /\ student' = r.m
         /\ IF r.err = "none" THEN pc' = "train_load_ori" /\ err' = err
            ELSE Raise(r.err)
    /\ hist' = Append(hist, "load_student")
    /\ UNCHANGED <<entry, cli, args, teacher, pre, call>>

\* model_ori = load_weight(model_ori, args.d_weight)
MainTrainLoadOri ==
    /\ pc = "train_load_ori"
    /\ LET r == load_weight(teacher, ckpt) IN
       /\ teacher' = r.m
       /\ IF r.err = "none" THEN pc' = "cut" /\ err' = err ELSE Raise(r.err)
    /\ hist' = Append(hist, "load_teacher")
    /\ UNCHANGED <<entry, cli, args, student, ckpt, pre, call>>

\* partial_model = cut_extra_layers(model, max(args.replace)); max() of an
\* empty list is a ValueError of its own
MainCut ==
    /\ pc = "cut"
    /\ IF args.replace = <<>>
       THEN Raise("MaxValueError") /\ UNCHANGED student
       ELSE LET r == cut_extra_layers(student, SeqMax(args.replace), Depth) IN
            /\ student' = r.m
            /\ IF r.err = "none" THEN pc' = "cut_ori" /\ err' = err
               ELSE Raise(r.err)
    /\ hist' = Append(hist, "cut_student")
    /\ UNCHANGED <<entry, cli, args, teacher, ckpt, pre, call>>

\* partial_model_ori = cut_extra_layers(model_ori, max(args.replace))
MainCutOri ==
    /\ pc = "cut_ori"
    /\ LET r == cut_extra_layers(teacher, SeqMax(args.replace), Depth) IN
       /\ teacher' = r.m
       /\ IF r.err = "none" THEN pc' = "grad" /\ err' = err ELSE Raise(r.err)
    /\ hist' = Append(hist, "cut_teacher")
    /\ UNCHANGED <<entry, cli, args, student, ckpt, pre, call>>

\* set_requires_grad(partial_model, args.replace)
MainGrad ==
    /\ pc = "grad"
    /\ student' = set_requires_grad(student, args.replace, DefaultFreeze)
    /\ hist' = Append(hist, "grad_student")
    /\ pc' = "grad_ori"
    /\ UNCHANGED <<entry, cli, args, teacher, ckpt, err, pre, call>>

\* set_requires_grad(partial_model_ori, [])
MainGradOri ==
    /\ pc = "grad_ori"
    /\ teacher' = set_requires_grad(teacher, <<>>, DefaultFreeze)
    /\ hist' = Append(hist, "grad_teacher")
    /\ pc' = "train"
    /\ UNCHANGED <<entry, cli, args, student, ckpt, err, pre, call>>

\* optimizer, scheduler, loss, output directory, train_model(...)
MainTrain ==
    /\ pc = "train"
    /\ hist' = Append(hist, "train")
    /\ pc' = "done"
    /\ UNCHANGED <<entry, cli, args, student, teacher, ckpt, err, pre, call>>

Next ==
    \/ ParseArgs
    \/ Override
    \/ MainCreate
    \/ MainDeepCopy
    \/ MainReplace
    \/ MainDispatch
    \/ MainEvalLoad
    \/ MainTrainLoad
    \/ MainTrainLoadOri
    \/ MainCut
    \/ MainCutOri
    \/ MainGrad
    \/ MainGradOri
    \/ MainTrain

Spec == Init /\ [][Next]_vars

\* ------------------------------------------------- a helper on its own
\* block lists already replaced in the model a helper is handed
PreLists == {<<>>, <<0>>, <<Depth \div 2>>, <<Depth - 1>>}

UnitModels ==
    {replace_att2mixer(CreateModel(n, nb_classes), l, n).m :
        n \in ModelNames, l \in PreLists}

NoArgs ==
    [d_model |-> "", d_weight |-> "", replace |-> <<>>, train |-> FALSE,
     eval |-> FALSE, eval_model |-> ""]

UnitInit ==
    /\ entry = "unit"
    /\ pc = "ready"
    /\ student \in UnitModels
    /\ pre = student
    /\ call = NoCall
    /\ cli = NoArgs
    /\ args = NoArgs
    /\ teacher = NoModel
    /\ ckpt = Unreachable
    /\ err = "none"
    /\ hist = <<>>

Return(r) ==
    /\ student' = r.m
    /\ err' = r.err
    /\ pc' = IF r.err = "none" THEN "returned" ELSE "raised"

\* replace_att2mixer(model, repl_blocks, model_name)
UnitReplace ==
    /\ pc = "ready"
    /\ \E repl \in SeqsUpTo(UnitIdx, MaxRepl), name \in ModelNames :
         /\ call' = [NoCall EXCEPT !.op = "replace", !.repl = repl, !.name = name]
         /\ Return(replace_att2mixer(student, repl, name))
    /\ UNCHANGED <<entry, cli, args, teacher, ckpt, hist, pre>>

\* cut_extra_layers(model, max_index, depth)
UnitCut ==
    /\ pc = "ready"
    /\ \E max_index \in (0 - 2)..Depth, depth \in {Depth - 1, Depth, Depth + 1} :
         /\ call' = [NoCall EXCEPT !.op = "cut", !.max_index = max_index,
                                   !.depth = depth]
         /\ Return(cut_extra_layers(student, max_index, depth))
    /\ UNCHANGED <<entry, cli, args, teacher, ckpt, hist, pre>>

\* set_requires_grad(model, targets, freeze)
UnitGrad ==
    /\ pc = "ready"
    /\ \E targets \in SeqsUpTo(UnitIdx, MaxRepl), freeze \in BOOLEAN :
         /\ call' = [NoCall EXCEPT !.op = "grad", !.repl = targets,
                                   !.freeze = freeze]
         /\ Return([m |-> set_requires_grad(student, targets, freeze),
                    err |-> "none"])
    /\ UNCHANGED <<entry, cli, args, teacher, ckpt, hist, pre>>

\* load_weight(model, weight)
UnitLoad ==
    /\ pc = "ready"
    /\ \E c \in Checkpoints :
         /\ call' = [NoCall EXCEPT !.op = "load", !.ckpt = c]
         /\ Return(load_weight(student, c))
    /\ UNCHANGED <<entry, cli, args, teacher, ckpt, hist, pre>>

UnitNext ==
    \/ UnitReplace
    \/ UnitCut
    \/ UnitGrad
    \/ UnitLoad

SpecUnit == UnitInit /\ [][UnitNext]_vars

\* ============================================================== claims
Range(q) == {q[k] : k \in 1..Len(q)}

Reverse(q) == [k \in 1..Len(q) |-> q[Len(q) + 1 - k]]

\* every listed index is a position of the block list, [0, depth)
InRange(q) == \A k \in 1..Len(q) : q[k] \in 0..(Depth - 1)

\* event a is in the history, and before event b
Before(a, b) ==
    \E i, j \in 1..Len(hist) : i < j /\ hist[i] = a /\ hist[j] = b

TrainMode == args.train /\ ~args.eval
EvalMode == args.eval /\ ~args.train

\* the tail layers and everything that belongs to them are as in `pre`
TailUnchanged ==
    /\ student.norm = pre.norm /\ student.fc_norm = pre.fc_norm
    /\ student.head_drop = pre.head_drop /\ student.head = pre.head
    /\ student.dist = pre.dist /\ student.ncls = pre.ncls
    /\ student.pos = pre.pos /\ student.tokens = pre.tokens
    /\ student.num_patches = pre.num_patches
    /\ TopParams(student) = TopParams(pre)
    /\ student.grad \cap TopParams(pre) = pre.grad \cap TopParams(pre)
    /\ student.loaded \cap TopParams(pre) = pre.loaded \cap TopParams(pre)

\* C1: after set_requires_grad(model, T) with the default freeze flag, a
\* parameter tracks gradients if and only if its name contains "blocks.<i>"
\* for some i in T; with T = [] no parameter tracks gradients.
ClaimC1 ==
    (call.op = "grad" /\ call.freeze = DefaultFreeze /\ pc = "returned")
    => \A p \in Params(student) : (p \in student.grad) <=> Matched(p, call.repl)

\* C2: main ends with the mode configuration error exactly when the mode
\* flags are not "exactly one of train, eval": it raises it when both are set
\* and when neither is, and never when exactly one is.
ClaimC2 ==
    pc \in {"done", "raised"}
    => ((err = "ModeError") <=> ~(TrainMode \/ EvalMode))

\* C3: when main is called with train = false and eval = false, the mode error
\* is raised before any model was created, deep-copied or had a block replaced.
ClaimC3 ==
    (pc = "raised" /\ err = "ModeError" /\ ~args.train /\ ~args.eval)
    => (student = NoModel /\ teacher = NoModel /\ hist = <<>>)

\* C4: for indices within [0, depth) and a model name the table knows,
\* replace_att2mixer returns; every listed position then holds a Mixer block
\* with exactly the table's four hyperparameters, every other position the
\* block it held before, the other layers are untouched, and the listed
\* order makes no difference.
TheoremC4 ==
    (call.op = "replace" /\ InRange(call.repl) /\ call.name \in DOMAIN param_dict)
    => /\ pc = "returned"
       /\ Len(student.blocks) = Len(pre.blocks)
       /\ \A p \in 0..(Depth - 1) :
            IF p \in Range(call.repl)
            THEN /\ student.blocks[p + 1].kind = "mixer"
                 /\ student.blocks[p + 1].hp = param_dict[call.name]
            ELSE /\ student.blocks[p + 1] = pre.blocks[p + 1]
                 /\ \A q \in BlockParams(pre.blocks[p + 1], p) :
                      /\ (q \in student.grad) <=> (q \in pre.grad)
                      /\ (q \in student.loaded) <=> (q \in pre.loaded)
       /\ TailUnchanged
       /\ replace_att2mixer(pre, Reverse(call.repl), call.name).m = student

\* two positions replaced in descending order, beside a block replaced earlier
WitnessC4 ==
    /\ call.op = "replace" /\ pc = "returned" /\ InRange(call.repl)
    /\ Len(call.repl) = 2 /\ call.repl[1] > call.repl[2]
    /\ \E p \in 0..(Depth - 1) :
         p \notin Range(call.repl) /\ pre.blocks[p + 1].kind = "mixer"

\* C5: for max_index < total_depth, after cut_extra_layers returns every block
\* strictly between max_index and total_depth is the pass-through block, every
\* block up to max_index is the block it was, the four tail layers are
\* identities, and with max_index = total_depth - 1 no block changed.
TheoremC5 ==
    (call.op = "cut" /\ call.max_index < call.depth /\ pc = "returned")
    => /\ Len(student.blocks) = Len(pre.blocks)
       /\ \A p \in 0..(Len(pre.blocks) - 1) :
            /\ (call.max_index < p /\ p < call.depth)
                 => student.blocks[p + 1] = EmptyBlock
            /\ p <= call.max_index => student.blocks[p + 1] = pre.blocks[p + 1]
       /\ student.norm = "identity" /\ student.fc_norm = "identity"
       /\ student.head_drop = "identity" /\ student.head = "identity"
       /\ (call.max_index = call.depth - 1 => student.blocks = pre.blocks)

\* a cut at a replaced block: the Mixer block stays, the blocks after it go
WitnessC5 ==
    /\ call.op = "cut" /\ pc = "returned"
    /\ call.max_index = Depth \div 2 /\ call.depth = Depth
    /\ student.blocks[call.max_index + 1].kind = "mixer"
    /\ student.blocks[Depth].kind = "empty"

ClaimC7 ==
    (call.op = "load" /\ call.ckpt.ok /\ call.ckpt.pos)
    => /\ err # "KeyError"
       /\ pc = "returned"
            => \A p \in Params(student) :
                 p \notin CkptKeys(call.ckpt, call.ckpt.heads)
                   => ((p \in student.loaded) <=> (p \in pre.loaded))

\* C8, as claimed: in train mode the student is loaded first, then its blocks
\* are replaced, then it is truncated, then the mask is set; no load into the
\* student comes after the replacement.
ClaimC8 ==
    (TrainMode /\ pc = "done")
    => /\ Before("load_student", "replace")
       /\ Before("replace", "cut_student")
       /\ Before("cut_student", "grad_student")
       /\ ~Before("replace", "load_student")

\* C8, amended: in train mode the student's blocks are replaced first (before
\* the mode dispatch), then the weights are loaded into the student and into
\* the teacher, then both are truncated at max(targets), then the masks are
\* set; every load into the student comes after the replacement.
TheoremC8 ==
    /\ \A i \in 1..Len(hist) :
         hist[i] = "load_student" => \E j \in 1..(i - 1) : hist[j] = "replace"
    /\ (TrainMode /\ pc = "done")
         => /\ hist = <<"create", "deepcopy", "replace", "load_student",
                        "load_teacher", "cut_student", "cut_teacher",
                        "grad_student", "grad_teacher", "train">>
            /\ \A p \in 0..(Depth - 1) :
                 p > SeqMax(args.replace)
                   => /\ student.blocks[p + 1] = EmptyBlock
                      /\ teacher.blocks[p + 1] = EmptyBlock

\* a training run of main that went through to train_model
WitnessC8 ==
    /\ entry = "call" /\ TrainMode /\ pc = "done"
    /\ InRange(args.replace) /\ Len(args.replace) = 2 /\ SeqMax(args.replace) = 1
    /\ Top("pos_embed") \in student.loaded

\* C9: in the train flow on the 12-block model, for a non-empty replace list
\* within [0, 12), once the mask is set the parameters the "blocks.<i>"
\* patterns match are exactly the parameters of the listed blocks.
ClaimC9 ==
    (TrainMode /\ pc \in {"grad_ori", "train", "done"}
       /\ args.replace # <<>> /\ InRange(args.replace))
    => {p \in Params(student) : Matched(p, args.replace)}
         = {p \in Params(student) : p.blk \in Range(args.replace)}

\* C10: run from the command line, main acts on the values given for
\* --d-model, --d-weight, --replace, --train and --eval, and --eval without
\* --train takes the evaluation branch.
ClaimC10 ==
    (entry = "script" /\ pc \notin {"parse", "override"})
    => /\ args.d_model = cli.d_model /\ args.d_weight = cli.d_weight
       /\ args.replace = cli.replace
       /\ args.train = cli.train /\ args.eval = cli.eval
       /\ (cli.eval /\ ~cli.train)
            => (err # "ModeError"
                /\ pc \notin {"train_load", "train_load_ori", "cut", "cut_ori",
                              "grad", "grad_ori", "train"})

====
